---- MODULE Spec2Model ----
(***************************************************************************)
(* Story Studio: the session controller (run_story_session), the session   *)
(* state machine (SessionState), the judge-report extraction               *)
(* (_extract_json, _to_judge_report), the preference memory and the span   *)
(* log, as a state machine.                                                *)
(*                                                                         *)
(* Texts returned by the model are abstract: "" is the empty string, any   *)
(* other value a non-empty text.  A judge raw text is a sequence of        *)
(* segments (prose, a stray brace, a JSON scalar/list, or a JSON object    *)
(* literal); a JSON value is kept by the Python type class json.loads      *)
(* gives it, which is all the controller's coercions look at.              *)
(***************************************************************************)
EXTENDS Integers, Sequences, FiniteSets, TLC

\* Largest max_iters argument explored (the argument ranges over -1..MaxIters).
MaxIters == 1

\* ------------------------------------------------------------------------
\* Inputs

\* Texts model_fn returns for a story (draft, rewrite, revision, HITL update).
StoryTexts == {"", "story"}

\* Text model_fn returns for the interpreter and the planner.
SpecTexts == {"spec"}
PlanTexts == {"plan"}

\* Python type classes of a JSON value under a key of the judge object;
\* "absent" is a missing key.
Shapes ==
  {"absent", "null", "true", "false", "zero", "num", "estr", "str",
   "elist", "list", "eobj", "obj"}

\* An object literal with none of the judge keys.
NoFields ==
  [pass |-> "absent", rewrite_required |-> "absent", hard_flags |-> "absent",
   scores |-> "absent", issues |-> "absent", revision_instructions |-> "absent",
   one_sentence_verdict |-> "absent"]

Seg(k) == [k |-> k, o |-> NoFields]
Obj(o) == [k |-> "obj", o |-> o]

PassObj == [NoFields EXCEPT !.pass = "true", !.rewrite_required = "false",
                            !.scores = "obj"]
FailObj == [NoFields EXCEPT !.pass = "false", !.rewrite_required = "false",
                            !.revision_instructions = "list"]
RewriteObj == [NoFields EXCEPT !.pass = "false", !.rewrite_required = "true",
                               !.hard_flags = "list"]

\* Judge raw texts: what model_fn returns to the judge prompt.
JudgeTexts ==
  { <<Obj(PassObj)>>,                                  \* a passing report
    <<Obj(FailObj)>>,                                  \* fail, targeted revision
    <<Obj(RewriteObj)>>,                               \* fail, full rewrite
    <<Seg("prose")>>,                                  \* no braces at all
    <<Seg("prose"), Obj(PassObj), Seg("prose")>>,      \* object inside prose
    <<Seg("lbrace"), Seg("prose")>>,                   \* unbalanced text
    <<Seg("null")>>,                                   \* valid JSON, not an object
    <<Seg("num")>>,
    <<Seg("list")>>,
    <<Obj([FailObj EXCEPT !.hard_flags = "num"])>>,    \* wrong field types
    <<Obj([FailObj EXCEPT !.scores = "list"])>>,
    <<Obj([FailObj EXCEPT !.hard_flags = "zero", !.scores = "null"])>>,
    <<Obj([FailObj EXCEPT !.pass = "str"])>> }         \* pass is a string

\* ------------------------------------------------------------------------
\* controller.py: _extract_json, _to_judge_report

\* Kinds of segment that are one complete JSON value.
JsonKinds == {"obj", "null", "num", "list", "str", "true", "false"}

\* json.loads(text): succeeds exactly when the text is one JSON value.
json_loads_ok(text) == Len(text) = 1 /\ text[1].k \in JsonKinds

EmptyDict == Obj(NoFields)

\* Segments that contain a '{', and segments that contain a '}'.
HasOpen(text) == {n \in 1..Len(text) : text[n].k \in {"obj", "lbrace"}}
HasClose(text) == {n \in 1..Len(text) : text[n].k \in {"obj", "rbrace"}}

Min(S) == CHOOSE n \in S : \A m \in S : n <= m
Max(S) == CHOOSE n \in S : \A m \in S : n >= m

\* re.search(r"\{[\s\S]*\}", text): from the leftmost '{' to the last '}'.
regex_match(text) ==
  IF HasOpen(text) # {} /\ HasClose(text) # {}
        /\ Min(HasOpen(text)) <= Max(HasClose(text))
  THEN SubSeq(text, Min(HasOpen(text)), Max(HasClose(text)))
  ELSE <<>>

_extract_json(text) ==
  IF json_loads_ok(text) THEN text[1]
  ELSE IF regex_match(text) # <<>>
       THEN IF json_loads_ok(regex_match(text)) THEN regex_match(text)[1]
            ELSE EmptyDict
       ELSE EmptyDict

\* bool(x) of a value of the given shape (an absent key reads as False).
Truthy(s) == s \in {"true", "num", "str", "list", "obj"}

\* list(x or []) raises TypeError on a truthy value that is not iterable.
ListRaises(s) == s \in {"true", "num"}
\* list(x or []): the elements, kept as one abstract item per container.
ListOf(s) == IF Truthy(s) THEN <<"item">> ELSE <<>>

\* (x or {}).items() raises AttributeError on a truthy value that is no dict.
ItemsRaises(s) == s \in {"true", "num", "str", "list"}
ScoresOf(s) == IF s = "obj" THEN <<"score">> ELSE <<>>

\* str(x): "" only for an absent key or the empty string.
StrOf(s) == IF s \in {"absent", "estr"} THEN "" ELSE "text"

DefaultReport ==
  [pass_ |-> FALSE, rewrite_required |-> FALSE, hard_flags |-> <<>>,
   scores |-> <<>>, issues |-> <<>>, revision_instructions |-> <<>>,
   one_sentence_verdict |-> ""]

\* Does _to_judge_report(obj) raise?  obj.get fails on anything but a dict.
_to_judge_report_raises(v) ==
  \/ v.k # "obj"
  \/ ListRaises(v.o.hard_flags)
  \/ ItemsRaises(v.o.scores)
  \/ ListRaises(v.o.issues)
  \/ ListRaises(v.o.revision_instructions)

_to_judge_report(v) ==
  [pass_ |-> Truthy(v.o.pass),
   rewrite_required |-> Truthy(v.o.rewrite_required),
   hard_flags |-> ListOf(v.o.hard_flags),
   scores |-> ScoresOf(v.o.scores),
   issues |-> ListOf(v.o.issues),
   revision_instructions |-> ListOf(v.o.revision_instructions),
   one_sentence_verdict |-> StrOf(v.o.one_sentence_verdict)]

\* ------------------------------------------------------------------------
\* memory_store.py: PreferenceMemory, MemoryStore; controller.py:
\* _hitl_collect_feedback, _hitl_update_memory

\* PreferenceMemory(): "None" stands for Python's None.
NoMemory ==
  [preferred_length |-> "None", preferred_tone |-> "None",
   recurring_character |-> "None"]

\* A feedback text is a sequence of words; <<>> is what input().strip()
\* gives for an empty or blank line.
Feedbacks == { <<>>, <<"thanks">>, <<"shorter">>, <<"named", "Luna">> }

\* The keywords of _hitl_update_memory a lower-cased word contains.
WordKeys(w) ==
  CASE w = "shorter" -> {"short"}
    [] w = "Longer" -> {"long"}
    [] w = "medium" -> {"medium"}
    [] w = "calmer" -> {"calm"}
    [] w = "cozy" -> {"cozy"}
    [] w = "funny" -> {"funny"}
    [] w = "humorous" -> {"humor"}
    [] OTHER -> {}

\* kw in feedback.lower()
Has(fb, kw) == \E n \in 1..Len(fb) : kw \in WordKeys(fb[n])

\* The text ends a word with "named" (case-sensitive) at position n.
EndsNamed(w) == w \in {"named", "renamed"}

\* ([A-Za-z]{2,20}) at the start of a word: the letters captured, "" if the
\* word does not start with two letters.
Letters(w) ==
  CASE w = "X" -> ""
    [] w = "42" -> ""
    [] w = "Bartholomeusmaximilianus" -> "Bartholomeusmaximili"
    [] OTHER -> w

\* re.search(r"named\s+([A-Za-z]{2,20})", feedback): positions that match.
NamedAt(fb) ==
  {n \in 1..(Len(fb) - 1) : EndsNamed(fb[n]) /\ Letters(fb[n + 1]) # ""}

\* Mutant of _hitl_update_memory: the result is built from a fresh
\* PreferenceMemory(), so a field the feedback does not mention is None.
_hitl_update_memory_fresh(mem, feedback) ==
  [preferred_length |->
     IF Has(feedback, "short") THEN "short"
     ELSE IF Has(feedback, "long") THEN "long"
     ELSE IF Has(feedback, "medium") THEN "medium"
     ELSE "None",
   preferred_tone |->
     IF Has(feedback, "calm") \/ Has(feedback, "cozy") THEN "calmer"
     ELSE IF Has(feedback, "funny") \/ Has(feedback, "humor") THEN "funnier"
     ELSE "None",
   recurring_character |->
     IF NamedAt(feedback) # {} THEN Letters(feedback[Min(NamedAt(feedback)) + 1])
     ELSE "None"]

_hitl_update_memory(mem, feedback) ==
  [preferred_length |->
     IF Has(feedback, "short") THEN "short"
     ELSE IF Has(feedback, "long") THEN "long"
     ELSE IF Has(feedback, "medium") THEN "medium"
     ELSE mem.preferred_length,
   preferred_tone |->
     IF Has(feedback, "calm") \/ Has(feedback, "cozy") THEN "calmer"
     ELSE IF Has(feedback, "funny") \/ Has(feedback, "humor") THEN "funnier"
     ELSE mem.preferred_tone,
   recurring_character |->
     IF NamedAt(feedback) # {} THEN Letters(feedback[Min(NamedAt(feedback)) + 1])
     ELSE mem.recurring_character]

\* The preference file before the session: missing, or holding a record.
StoredMemories ==
  { [exists |-> FALSE, data |-> NoMemory],
    [exists |-> TRUE, data |-> [NoMemory EXCEPT !.preferred_length = "short"]] }

\* MemoryStore.load
load(st) == IF st.exists THEN st.data ELSE NoMemory

\* PreferenceMemory.to_text
to_text(mem) ==
  IF mem = NoMemory THEN <<"(none)">>
  ELSE (IF mem.preferred_length # "None" THEN <<mem.preferred_length>> ELSE <<>>)
       \o (IF mem.preferred_tone # "None" THEN <<mem.preferred_tone>> ELSE <<>>)
       \o (IF mem.recurring_character # "None"
           THEN <<mem.recurring_character>> ELSE <<>>)

\* ------------------------------------------------------------------------
\* prompts.py: a prompt is kept as the template used and the arguments it
\* interpolates.

Prompt(fn, request_spec, plan_, story_, instructions) ==
  [fn |-> fn, request_spec |-> request_spec, plan |-> plan_, story |-> story_,
   instructions |-> instructions]

interpreter_prompt(memory_pref) == Prompt("interpreter", "", "", "", memory_pref)
planner_prompt(request_spec) == Prompt("planner", request_spec, "", "", <<>>)
storyteller_prompt(request_spec, plan_) ==
  Prompt("storyteller", request_spec, plan_, "", <<>>)
judge_prompt(request_spec, story_) == Prompt("judge", request_spec, "", story_, <<>>)
reviser_prompt(request_spec, story_, revision_instructions) ==
  Prompt("reviser", request_spec, "", story_, revision_instructions)

\* ------------------------------------------------------------------------
\* observability.py: Metrics, record_span

NewMetrics == [counters |-> <<>>, timers_ms |-> <<>>, gauges |-> <<>>]

\* Metrics.inc(name, 1): counters are kept as the sequence of names
\* incremented; the counter's value is the number of occurrences.
inc(m, name) == [m EXCEPT !.counters = Append(@, name)]

Count(seq, x) == Cardinality({n \in 1..Len(seq) : seq[n] = x})

\* Mutant of observe_ms: the sample is added to every timer.
observe_ms_all(m, name, ms) ==
  [m EXCEPT !.timers_ms =
     [k \in DOMAIN m.timers_ms \cup {name} |->
        IF k \in DOMAIN m.timers_ms THEN Append(m.timers_ms[k], ms) ELSE <<ms>>]]

\* Metrics.observe_ms(name, ms): timers_ms.setdefault(name, []).append(ms).
\* timers_ms maps the keys observed so far to their samples.
observe_ms(m, name, ms) ==
  [m EXCEPT !.timers_ms =
     [k \in DOMAIN m.timers_ms \cup {name} |->
        IF k \in DOMAIN m.timers_ms
        THEN (IF k = name THEN Append(m.timers_ms[k], ms) ELSE m.timers_ms[k])
        ELSE <<ms>>]]

\* sorted(vals): insertion of each sample into the sorted prefix.
Insert(x, sorted) ==
  LET below == SelectSeq(sorted, LAMBDA y : y <= x)
      above == SelectSeq(sorted, LAMBDA y : y > x)
  IN below \o <<x>> \o above

RECURSIVE SortedOf(_)
SortedOf(vals) ==
  IF vals = <<>> THEN <<>>
  ELSE Insert(vals[Len(vals)], SortedOf(SubSeq(vals, 1, Len(vals) - 1)))

RECURSIVE SumOf(_)
SumOf(vals) ==
  IF vals = <<>> THEN 0 ELSE vals[1] + SumOf(Tail(vals))

\* Mutant of P95Index: int(0.95 * n).
P95Index_of_n(n) == (95 * n) \div 100

\* int(0.95 * (len(s) - 1)), as a 0-based index.
P95Index(n) == (95 * (n - 1)) \div 100

\* Mutant of summary: the samples are not sorted before the index is taken.
summary_unsorted(vals) ==
  IF vals = <<>>
  THEN [count |-> 0, mean_ms |-> [num |-> 0, den |-> 1], p95_ms |-> 0]
  ELSE [count |-> Len(vals),
        mean_ms |-> [num |-> SumOf(vals), den |-> Len(vals)],
        p95_ms |-> vals[P95Index(Len(vals)) + 1]]

\* Metrics.snapshot: summary(vals).  mean_ms is kept as the exact quotient
\* sum / count.
summary(vals) ==
  IF vals = <<>>
  THEN [count |-> 0, mean_ms |-> [num |-> 0, den |-> 1], p95_ms |-> 0]
  ELSE [count |-> Len(vals),
        mean_ms |-> [num |-> SumOf(vals), den |-> Len(vals)],
        p95_ms |-> SortedOf(vals)[P95Index(Len(vals)) + 1]]

\* The duration record_span computes from the wall clock, end_ms - start_ms,
\* in the session model (the clock's values are explored in MetricsSpec).
SpanDurations == {0}

\* Metrics.set_gauge for every score of the report.
set_gauges(m, scores) == [m EXCEPT !.gauges = @ \o scores]

\* record_span on a span the controller has closed: the latency observation
\* and the span event appended to events.jsonl.
SpanEvent(name, prompt, output, iteration) ==
  [type |-> "span", name |-> name, prompt_hash |-> prompt,
   output_hash |-> output, iteration |-> iteration]

\* ------------------------------------------------------------------------
\* session.py: SessionState

\* SessionState.new
new ==
  [state |-> "INIT",
   transitions |-> << [from |-> "None", to |-> "INIT"] >>,
   request_spec |-> "", plan |-> "", drafts |-> <<>>, judge_reports |-> <<>>,
   final_story |-> "", user_feedback |-> <<>>, metrics |-> <<>>]

\* Mutant of transition: the entry is logged but state is left as it was.
transition_keeps_state(s, to_state) ==
  [s EXCEPT !.transitions = Append(@, [from |-> s.state, to |-> to_state])]

\* SessionState.transition
transition(s, to_state) ==
  [s EXCEPT !.transitions = Append(@, [from |-> s.state, to |-> to_state]),
            !.state = to_state]

\* ------------------------------------------------------------------------
\* controller.py: run_story_session

VARIABLES
  pc,           \* the statement run_story_session is at
  exc,          \* the exception that left run_story_session, "none" if none
  max_iters,    \* argument
  enable_hitl,  \* argument
  session,      \* the SessionState object
  i,            \* the loop variable of the draft/judge/revise loop
  story,        \* local: the current story text
  final_story,  \* local: the text run_story_session returns
  j_report,     \* local: the last JudgeReport
  memory,       \* local: the PreferenceMemory object
  store,        \* the preference file user_prefs.json
  store_saves,  \* number of MemoryStore.save calls
  events,       \* the span events appended to events.jsonl
  metrics,      \* the Metrics object
  artifacts,    \* the session documents written by SessionState.save
  span,         \* a Span object (explored on its own in SpanSpec)
  clock,        \* int(time.time() * 1000) as a Span method would read it
  call,         \* the last call made on span: its number and arguments
  j_raw         \* the raw text model_fn returned to the judge prompt

vars ==
  <<pc, exc, max_iters, enable_hitl, session, i, story, final_story, j_report,
    memory, store, store_saves, events, metrics, artifacts, span, clock, call, j_raw>>

\* No span is being explored: the session model keeps its spans as the
\* events record_span logs.
NoSpan ==
  [trace_id |-> "", span_id |-> "", parent_span_id |-> <<>>, name |-> "",
   start_ms |-> 0, end_ms |-> <<>>, prompt_hash |-> <<>>, output_hash |-> <<>>,
   meta |-> <<>>]

NoCall == [n |-> 0, op |-> "", prompt |-> "", output |-> "", meta |-> <<>>]

SpanIdle ==
  /\ span = NoSpan
  /\ clock = 0
  /\ call = NoCall

\* Lines 113-124: the session is created, the preference memory loaded.
Init ==
  /\ pc = "start"
  /\ exc = "none"
  /\ max_iters \in -1..MaxIters
  /\ enable_hitl \in BOOLEAN
  /\ session = new
  /\ i = 0
  /\ story = ""
  /\ final_story = ""
  /\ j_report = DefaultReport
  /\ store \in StoredMemories
  /\ memory = load(store)
  /\ store_saves = 0
  /\ events = <<>>
  /\ metrics = NewMetrics
  /\ artifacts = <<>>
  /\ SpanIdle
  /\ j_raw = <<>>

\* Mutant of record_span: the event is written at the head of the log.
record_span_at_head(name, prompt, output, iteration) ==
  /\ \E duration \in SpanDurations : metrics' = observe_ms(metrics, name, duration)
  /\ events' = <<SpanEvent(name, prompt, output, iteration)>> \o events

\* record_span(logger, metrics, span, prompt, output)
record_span(name, prompt, output, iteration) ==
  /\ \E duration \in SpanDurations : metrics' = observe_ms(metrics, name, duration)
  /\ events' = Append(events, SpanEvent(name, prompt, output, iteration))

\* 1) Interpreter: session.transition("INTERPRETING")
Interpreting ==
  /\ pc = "start"
  /\ session' = transition(session, "INTERPRETING")
  /\ pc' = "interpreter"
  /\ UNCHANGED <<exc, max_iters, enable_hitl, i, story, final_story, j_report,
                 memory, store, store_saves, events, metrics, artifacts>>
  /\ UNCHANGED <<span, clock, call, j_raw>>

\* model_fn returns the request spec.
Interpreter ==
  /\ pc = "interpreter"
  /\ \E spec \in SpecTexts :
       /\ record_span("interpreter", interpreter_prompt(to_text(memory)), spec, -1)
       /\ session' = transition([session EXCEPT !.request_spec = spec],
                                "INTERPRETED")
  /\ pc' = "planning"
  /\ UNCHANGED <<exc, max_iters, enable_hitl, i, story, final_story, j_report,
                 memory, store, store_saves, artifacts>>
  /\ UNCHANGED <<span, clock, call, j_raw>>

\* 2) Planner: session.transition("PLANNING")
Planning ==
  /\ pc = "planning"
  /\ session' = transition(session, "PLANNING")
  /\ pc' = "planner"
  /\ UNCHANGED <<exc, max_iters, enable_hitl, i, story, final_story, j_report,
                 memory, store, store_saves, events, metrics, artifacts>>
  /\ UNCHANGED <<span, clock, call, j_raw>>

\* model_fn returns the plan; story = "" and the loop starts at i = 0.
Planner ==
  /\ pc = "planner"
  /\ \E plan \in PlanTexts :
       /\ record_span("planner", planner_prompt(session.request_spec), plan, -1)
       /\ session' = transition([session EXCEPT !.plan = plan], "PLANNED")
  /\ story' = ""
  /\ i' = 0
  /\ pc' = "loop"
  /\ UNCHANGED <<exc, max_iters, enable_hitl, final_story, j_report,
                 memory, store, store_saves, artifacts>>
  /\ UNCHANGED <<span, clock, call, j_raw>>

\* for i in range(max_iters + 1): the next iteration starts with
\* session.transition("DRAFTING").
Drafting ==
  /\ pc = "loop"
  /\ i <= max_iters
  /\ session' = transition(session, "DRAFTING")
  /\ pc' = "storyteller"
  /\ UNCHANGED <<exc, max_iters, enable_hitl, i, story, final_story, j_report,
                 memory, store, store_saves, events, metrics, artifacts>>
  /\ UNCHANGED <<span, clock, call, j_raw>>

\* for i in range(max_iters + 1): the range is exhausted.
LoopEnd ==
  /\ pc = "loop"
  /\ i > max_iters
  /\ pc' = "finalize"
  /\ UNCHANGED <<exc, max_iters, enable_hitl, session, i, story, final_story,
                 j_report, memory, store, store_saves, events, metrics, artifacts>>
  /\ UNCHANGED <<span, clock, call, j_raw>>

\* Mutant of Storyteller: the draft is not appended to drafts.
Storyteller_noappend ==
  /\ pc = "storyteller"
  /\ \E text \in StoryTexts :
       /\ story' = text
       /\ record_span("storyteller",
                      storyteller_prompt(session.request_spec, session.plan),
                      text, i)
       /\ session' = transition(session, "DRAFTED")
  /\ pc' = "judging"
  /\ UNCHANGED <<exc, max_iters, enable_hitl, i, final_story, j_report,
                 memory, store, store_saves, artifacts>>
  /\ UNCHANGED <<span, clock, call, j_raw>>

\* model_fn returns a draft; it is appended to drafts.
Storyteller ==
  /\ pc = "storyteller"
  /\ \E text \in StoryTexts :
       /\ story' = text
       /\ record_span("storyteller",
                      storyteller_prompt(session.request_spec, session.plan),
                      text, i)
       /\ session' = transition([session EXCEPT !.drafts = Append(@, text)],
                                "DRAFTED")
  /\ pc' = "judging"
  /\ UNCHANGED <<exc, max_iters, enable_hitl, i, final_story, j_report,
                 memory, store, store_saves, artifacts>>
  /\ UNCHANGED <<span, clock, call, j_raw>>

\* session.transition("JUDGING")
Judging ==
  /\ pc = "judging"
  /\ session' = transition(session, "JUDGING")
  /\ pc' = "judge"
  /\ UNCHANGED <<exc, max_iters, enable_hitl, i, story, final_story, j_report,
                 memory, store, store_saves, events, metrics, artifacts>>
  /\ UNCHANGED <<span, clock, call, j_raw>>

\* The judge metrics of lines 200-206.
judge_metrics(m, report) ==
  set_gauges(
    (IF report.rewrite_required THEN inc(
       (IF report.pass_ THEN inc(inc(m, "judge.calls"), "judge.pass")
        ELSE inc(m, "judge.calls")), "judge.rewrite_required")
     ELSE (IF report.pass_ THEN inc(inc(m, "judge.calls"), "judge.pass")
           ELSE inc(m, "judge.calls"))),
    report.scores)

\* model_fn returns the judge's raw text; the span is recorded, the report
\* extracted and appended.  _to_judge_report raising leaves the function.
Judge ==
  /\ pc = "judge"
  /\ \E raw \in JudgeTexts :
       /\ j_raw' = raw
       /\ events' = Append(events,
            SpanEvent("judge", judge_prompt(session.request_spec, story), raw, i))
       /\ IF _to_judge_report_raises(_extract_json(raw))
          THEN /\ \E duration \in SpanDurations :
                    metrics' = observe_ms(metrics, "judge", duration)
               /\ exc' = "_to_judge_report"
               /\ pc' = "raised"
               /\ UNCHANGED <<session, j_report>>
          ELSE /\ j_report' = _to_judge_report(_extract_json(raw))
               /\ \E duration \in SpanDurations :
                    metrics' = judge_metrics(
                                 observe_ms(metrics, "judge", duration), j_report')
               /\ session' = transition(
                    [session EXCEPT !.judge_reports = Append(@, j_report')],
                    "JUDGED")
               /\ pc' = "gate"
               /\ UNCHANGED exc
  /\ UNCHANGED <<max_iters, enable_hitl, i, story, final_story,
                 memory, store, store_saves, artifacts>>
  /\ UNCHANGED <<span, clock, call>>

\* Mutant of GatePass: a passing report does not leave the loop.
GatePass_continues ==
  /\ pc = "gate"
  /\ j_report.pass_
  /\ session' = transition(session, "REVISING")
  /\ pc' = "revise"
  /\ UNCHANGED <<exc, max_iters, enable_hitl, i, story, final_story, j_report,
                 memory, store, store_saves, events, metrics, artifacts>>
  /\ UNCHANGED <<span, clock, call, j_raw>>

\* if j_report.pass_: FINALIZED, final_story = story, break
GatePass ==
  /\ pc = "gate"
  /\ j_report.pass_
  /\ session' = [transition(session, "FINALIZED") EXCEPT !.final_story = story]
  /\ pc' = "finalize"
  /\ UNCHANGED <<exc, max_iters, enable_hitl, i, story, final_story, j_report,
                 memory, store, store_saves, events, metrics, artifacts>>
  /\ UNCHANGED <<span, clock, call, j_raw>>

\* Mutant of GateBestEffort: the session is finalized without a final_story.
GateBestEffort_unset ==
  /\ pc = "gate"
  /\ ~j_report.pass_
  /\ i = max_iters
  /\ session' = transition(session, "FINALIZED")
  /\ pc' = "finalize"
  /\ UNCHANGED <<exc, max_iters, enable_hitl, i, story, final_story, j_report,
                 memory, store, store_saves, events, metrics, artifacts>>
  /\ UNCHANGED <<span, clock, call, j_raw>>

\* if i == max_iters: best-effort stop
GateBestEffort ==
  /\ pc = "gate"
  /\ ~j_report.pass_
  /\ i = max_iters
  /\ session' = [transition(session, "FINALIZED") EXCEPT !.final_story = story]
  /\ pc' = "finalize"
  /\ UNCHANGED <<exc, max_iters, enable_hitl, i, story, final_story, j_report,
                 memory, store, store_saves, events, metrics, artifacts>>
  /\ UNCHANGED <<span, clock, call, j_raw>>

\* session.transition("REVISING")
Revising ==
  /\ pc = "gate"
  /\ ~j_report.pass_
  /\ i # max_iters
  /\ session' = transition(session, "REVISING")
  /\ pc' = "revise"
  /\ UNCHANGED <<exc, max_iters, enable_hitl, i, story, final_story, j_report,
                 memory, store, store_saves, events, metrics, artifacts>>
  /\ UNCHANGED <<span, clock, call, j_raw>>

\* Mutant of Revise: the branch on rewrite_required is inverted.
Revise_swapped ==
  /\ pc = "revise"
  /\ \E text \in StoryTexts :
       /\ story' = text
       /\ IF ~j_report.rewrite_required
          THEN record_span("rewrite",
                 storyteller_prompt(session.request_spec, session.plan), text, i)
          ELSE record_span("reviser",
                 reviser_prompt(session.request_spec, story,
                                j_report.revision_instructions), text, i)
       /\ session' = transition([session EXCEPT !.drafts = Append(@, text)],
                                "REVISED")
  /\ i' = i + 1
  /\ pc' = "loop"
  /\ UNCHANGED <<exc, max_iters, enable_hitl, final_story, j_report,
                 memory, store, store_saves, artifacts>>
  /\ UNCHANGED <<span, clock, call, j_raw>>

\* The rewrite or reviser call; its output is appended to drafts, REVISED,
\* and the for loop goes to its next i.
Revise ==
  /\ pc = "revise"
  /\ \E text \in StoryTexts :
       /\ story' = text
       /\ IF j_report.rewrite_required
          THEN record_span("rewrite",
                 storyteller_prompt(session.request_spec, session.plan), text, i)
          ELSE record_span("reviser",
                 reviser_prompt(session.request_spec, story,
                                j_report.revision_instructions), text, i)
       /\ session' = transition([session EXCEPT !.drafts = Append(@, text)],
                                "REVISED")
  /\ i' = i + 1
  /\ pc' = "loop"
  /\ UNCHANGED <<exc, max_iters, enable_hitl, final_story, j_report,
                 memory, store, store_saves, artifacts>>
  /\ UNCHANGED <<span, clock, call, j_raw>>

\* 4) final_story = session.final_story or story
Finalize ==
  /\ pc = "finalize"
  /\ final_story' = IF session.final_story # "" THEN session.final_story ELSE story
  /\ pc' = IF enable_hitl THEN "hitl" ELSE "persist"
  /\ UNCHANGED <<exc, max_iters, enable_hitl, session, i, story, j_report,
                 memory, store, store_saves, events, metrics, artifacts>>
  /\ UNCHANGED <<span, clock, call, j_raw>>

\* The standing instructions of the HITL revision, after the feedback.
hitl_instructions(fb) == <<"User feedback">> \o fb \o <<"age-appropriate", "cozy">>

\* fb = _hitl_collect_feedback(); if fb: the feedback is stored, the memory
\* updated and saved.
HitlFeedback ==
  /\ pc = "hitl"
  /\ \E fb \in Feedbacks :
       IF fb # <<>>
       THEN /\ session' = [session EXCEPT !.user_feedback = fb]
            /\ memory' = _hitl_update_memory(memory, fb)
            /\ store' = [exists |-> TRUE, data |-> memory']
            /\ store_saves' = store_saves + 1
            /\ metrics' = inc(metrics, "hitl.feedback")
            /\ pc' = "hitl_reviser"
       ELSE /\ pc' = "persist"
            /\ UNCHANGED <<session, memory, store, store_saves, metrics>>
  /\ UNCHANGED <<exc, max_iters, enable_hitl, i, story, final_story, j_report,
                 events, artifacts>>
  /\ UNCHANGED <<span, clock, call, j_raw>>

\* Mutant of HitlReviser: the updated story is appended and returned but
\* session.final_story keeps the gate's text.
HitlReviser_keeps_final ==
  /\ pc = "hitl_reviser"
  /\ \E updated_story \in StoryTexts :
       /\ record_span("hitl_reviser",
            reviser_prompt(session.request_spec, final_story,
                           hitl_instructions(session.user_feedback)),
            updated_story, -1)
       /\ session' = [session EXCEPT !.drafts = Append(@, updated_story)]
       /\ final_story' = updated_story
  /\ pc' = "persist"
  /\ UNCHANGED <<exc, max_iters, enable_hitl, i, story, j_report,
                 memory, store, store_saves, artifacts>>
  /\ UNCHANGED <<span, clock, call, j_raw>>

\* model_fn returns the updated story: appended to drafts, final_story
\* overwritten.
HitlReviser ==
  /\ pc = "hitl_reviser"
  /\ \E updated_story \in StoryTexts :
       /\ record_span("hitl_reviser",
            reviser_prompt(session.request_spec, final_story,
                           hitl_instructions(session.user_feedback)),
            updated_story, -1)
       /\ session' = [session EXCEPT !.drafts = Append(@, updated_story),
                                     !.final_story = updated_story]
       /\ final_story' = updated_story
  /\ pc' = "persist"
  /\ UNCHANGED <<exc, max_iters, enable_hitl, i, story, j_report,
                 memory, store, store_saves, artifacts>>
  /\ UNCHANGED <<span, clock, call, j_raw>>

\* Metrics.snapshot
snapshot(m) ==
  [counters |-> [n \in {m.counters[k] : k \in DOMAIN m.counters}
                   |-> Count(m.counters, n)],
   timers |-> [n \in DOMAIN m.timers_ms |-> summary(m.timers_ms[n])],
   gauges |-> {m.gauges[k] : k \in DOMAIN m.gauges}]

\* session.metrics = metrics.snapshot(); session.save(); return
Persist ==
  /\ pc = "persist"
  /\ session' = [session EXCEPT !.metrics = <<snapshot(metrics)>>]
  /\ artifacts' = Append(artifacts, session')
  /\ pc' = "done"
  /\ UNCHANGED <<exc, max_iters, enable_hitl, i, story, final_story, j_report,
                 memory, store, store_saves, events, metrics>>
  /\ UNCHANGED <<span, clock, call, j_raw>>

\* The statements at which model_fn is being called.
ModelCalls ==
  {"interpreter", "planner", "storyteller", "judge", "revise", "hitl_reviser"}

\* Mutant of ModelFnRaises: the failure is noted and the session saved anyway.
ModelFnRaises_saved ==
  /\ pc \in ModelCalls
  /\ exc' = "model_fn"
  /\ pc' = "persist"
  /\ UNCHANGED <<max_iters, enable_hitl, session, i, story, final_story, j_report,
                 memory, store, store_saves, events, metrics, artifacts>>
  /\ UNCHANGED <<span, clock, call, j_raw>>

\* model_fn raises: nothing catches it, run_story_session is left.
ModelFnRaises ==
  /\ pc \in ModelCalls
  /\ exc' = "model_fn"
  /\ pc' = "raised"
  /\ UNCHANGED <<max_iters, enable_hitl, session, i, story, final_story, j_report,
                 memory, store, store_saves, events, metrics, artifacts>>
  /\ UNCHANGED <<span, clock, call, j_raw>>

Next ==
  \/ Interpreting
  \/ Interpreter
  \/ Planning
  \/ Planner
  \/ Drafting
  \/ LoopEnd
  \/ Storyteller
  \/ Judging
  \/ Judge
  \/ GatePass
  \/ GateBestEffort
  \/ Revising
  \/ Revise
  \/ Finalize
  \/ HitlFeedback
  \/ HitlReviser
  \/ Persist
  \/ ModelFnRaises

Spec == Init /\ [][Next]_vars

\* ------------------------------------------------------------------------
\* Properties

Last(seq) == seq[Len(seq)]

\* The spans of the draft/judge/revise loop, in the order logged.
LoopSpanNames == {"storyteller", "judge", "rewrite", "reviser"}
IsLoopSpan(e) == e.name \in LoopSpanNames
LoopSpans == SelectSeq(events, IsLoopSpan)

IsHitlSpan(e) == e.name = "hitl_reviser"
HitlSpans == SelectSeq(events, IsHitlSpan)

\* The statements after the loop of a run that has not raised.
AfterLoop == {"finalize", "hitl", "hitl_reviser", "persist", "done"}

\* C1: the transitions log is a continuous chain: it starts with the creation
\* entry (to = INIT), every later entry's from is the previous entry's to, and
\* the last entry's to is the session's current state.
C1_TransitionsChain ==
  /\ Len(session.transitions) >= 1
  /\ session.transitions[1].to = "INIT"
  /\ \A k \in 2..Len(session.transitions) :
       session.transitions[k].from = session.transitions[k - 1].to
  /\ Last(session.transitions).to = session.state

C1_Witness ==
  /\ session.state = "REVISED"
  /\ Len(session.transitions) >= 10

\* C2: a judge report with pass = true is the last report of the session and
\* the judge span that produced it is the last span of the loop (no
\* storyteller, judge, rewrite or reviser call follows); once the gate has
\* run the session is FINALIZED by the transition JUDGED -> FINALIZED, and
\* final_story is the draft that judge call was given (until a HITL revision
\* replaces it).
C2_PassEndsLoop ==
  \A k \in 1..Len(session.judge_reports) :
    session.judge_reports[k].pass_ =>
      /\ k = Len(session.judge_reports)
      /\ Last(LoopSpans).name = "judge"
      /\ pc # "gate" =>
           /\ session.state = "FINALIZED"
           /\ Last(session.transitions) = [from |-> "JUDGED", to |-> "FINALIZED"]
           /\ HitlSpans = <<>> =>
                session.final_story = Last(LoopSpans).prompt_hash.story

C2_Witness ==
  /\ pc = "done"
  /\ Len(session.judge_reports) = 2
  /\ ~session.judge_reports[1].pass_
  /\ session.judge_reports[2].pass_
  /\ session.final_story = "story"

\* C3 (as claimed): the span logged right after a rewrite or reviser span is
\* the judge span, and that judge call is given the rewritten/revised draft.
C3_RevisedDraftJudgedNext ==
  \A k \in 1..(Len(events) - 1) :
    events[k].name \in {"rewrite", "reviser"} =>
      /\ events[k + 1].name = "judge"
      /\ events[k + 1].prompt_hash.story = events[k].output_hash

\* C4 (as claimed): before any HITL pass, drafts holds at most max_iters + 1
\* texts.
C4_DraftsBounded ==
  (max_iters >= 0 /\ HitlSpans = <<>>) => Len(session.drafts) <= max_iters + 1

\* The loop ran to exhaustion: the gate of iteration i = max_iters has run on
\* a report that did not pass.
Exhausted ==
  /\ max_iters >= 0
  /\ i = max_iters
  /\ pc \in AfterLoop
  /\ session.judge_reports # <<>>
  /\ ~Last(session.judge_reports).pass_

\* C5: when the loop runs to exhaustion the session is FINALIZED, not failed,
\* final_story is the last element of drafts, and the last span of the loop is
\* the judge span (no rewrite or reviser call after the last judge).
C5_ExhaustionFinalizes ==
  Exhausted =>
    /\ session.state = "FINALIZED"
    /\ exc = "none"
    /\ session.drafts # <<>>
    /\ session.final_story = Last(session.drafts)
    /\ Last(LoopSpans).name = "judge"
    /\ \A k \in 1..Len(session.judge_reports) : ~session.judge_reports[k].pass_

C5_Witness ==
  /\ Exhausted
  /\ pc = "finalize"
  /\ max_iters = 1
  /\ session.final_story = "story"
  /\ session.drafts[1] = ""

\* C6 (as claimed): no judge raw text makes run_story_session raise: the
\* report extraction never leaves the function with an exception.
C6_JudgeNeverAborts == exc # "_to_judge_report"

\* C7: when a model_fn invocation raises, run_story_session is left and no
\* session artifact has been or is written; an artifact exists only in runs
\* where no call raised.
C7_FailureLeavesNoArtifact ==
  /\ exc = "model_fn" => (pc = "raised" /\ artifacts = <<>>)
  /\ artifacts # <<>> => exc = "none"

C7_Witness ==
  /\ exc = "model_fn"
  /\ session.state = "FINALIZED"
  /\ session.user_feedback # <<>>

\* C8 (as claimed): a run in which no model_fn invocation raised ends with the
\* session serialized exactly once.
C8_SavedExactlyOnce ==
  (pc \in {"done", "raised"} /\ exc # "model_fn") => Len(artifacts) = 1

\* C9: there are never more judge reports than drafts.
C9_ReportsWithinDrafts == Len(session.judge_reports) <= Len(session.drafts)

C9_Witness ==
  /\ Len(session.judge_reports) = 2
  /\ Len(session.drafts) = 4
  /\ pc = "done"

\* C10 (as claimed): every persisted session holds at least one draft.
C10_PersistedHasDraft ==
  \A k \in 1..Len(artifacts) : Len(artifacts[k].drafts) >= 1

\* The number of storyteller spans among the first n events.
StorytellersBefore(n) ==
  Cardinality({k \in 1..n : events[k].name = "storyteller"})

\* C11: the span log is in protocol order: the first span is the interpreter's
\* and the second the planner's, and there is no other of either; a
\* storyteller span opens iteration 0, 1, 2, ... in turn, a judge span comes
\* right after the storyteller span of its iteration, a rewrite or reviser
\* span right after the judge span of its iteration (so at most one per
\* iteration), and nothing is logged after a hitl_reviser span.
C11_SpansInProtocolOrder ==
  /\ pc \in AfterLoop => Len(events) >= 2
  /\ \A k \in 1..Len(events) :
       /\ events[k].name = "interpreter" <=> k = 1
       /\ events[k].name = "planner" <=> k = 2
       /\ events[k].name = "storyteller" =>
            /\ events[k - 1].name \in {"planner", "judge", "rewrite", "reviser"}
            /\ events[k].iteration = StorytellersBefore(k - 1)
       /\ events[k].name = "judge" =>
            /\ events[k - 1].name = "storyteller"
            /\ events[k].iteration = events[k - 1].iteration
       /\ events[k].name \in {"rewrite", "reviser"} =>
            /\ events[k - 1].name = "judge"
            /\ events[k].iteration = events[k - 1].iteration
       /\ events[k].name = "hitl_reviser" => k = Len(events)

C11_Witness ==
  /\ pc = "done"
  /\ Len(events) = 8
  /\ events[5].name = "reviser"
  /\ events[6].name = "storyteller"
  /\ events[8].name = "hitl_reviser"

\* The HITL pass is running or has run: the feedback is being collected, or
\* it has been stored, or the hitl_reviser call is being or has been made.
HitlPassRuns ==
  \/ pc \in {"hitl", "hitl_reviser"}
  \/ session.user_feedback # <<>>
  \/ store_saves > 0
  \/ HitlSpans # <<>>

\* C12 (as claimed): the HITL pass runs only with enable_hitl set and on a
\* session the gate has finalized.
C12_HitlOnlyAfterGate ==
  HitlPassRuns =>
    /\ enable_hitl
    /\ session.state = "FINALIZED"
    /\ \E k \in 1..Len(session.transitions) :
         session.transitions[k] = [from |-> "JUDGED", to |-> "FINALIZED"]

\* C13 (as claimed): a step that calls MemoryStore.save (or changes the
\* preference file) is the HITL step with non-empty feedback, and the
\* feedback changed a field of the memory.
C13_SavedOnlyWhenChanged ==
  [][(store_saves' # store_saves \/ store' # store) =>
       /\ enable_hitl
       /\ session'.user_feedback # <<>>
       /\ memory' # memory]_vars

\* The judge report of iteration n (the loop appends one report per
\* iteration, in order).
ReportOf(n) == session.judge_reports[n + 1]

\* C14: a rewrite or reviser call is made only after a report with
\* pass = false in an iteration before the last; it is the rewrite call exactly
\* when rewrite_required is set, with the prompt storyteller_prompt(request
\* spec, plan), which holds no draft; otherwise it is the reviser call, on the
\* draft that was judged and the report's revision_instructions.  A next
\* iteration is only started after such a call.  A judge text with no braces
\* gives the all-defaults report and is followed by the reviser call.
C14_ReviseBranches ==
  \A k \in 1..Len(events) :
    /\ events[k].name \in {"rewrite", "reviser"} =>
         /\ events[k - 1].name = "judge"
         /\ events[k].iteration < max_iters
         /\ ~ReportOf(events[k].iteration).pass_
         /\ events[k].name = "rewrite" <=>
              ReportOf(events[k].iteration).rewrite_required
         /\ events[k].name = "rewrite" =>
              /\ events[k].prompt_hash =
                   storyteller_prompt(session.request_spec, session.plan)
              /\ events[k].prompt_hash.story = ""
         /\ events[k].name = "reviser" =>
              events[k].prompt_hash =
                reviser_prompt(session.request_spec,
                               events[k - 1].prompt_hash.story,
                               ReportOf(events[k].iteration).revision_instructions)
    /\ (events[k].name = "storyteller" /\ events[k].iteration > 0) =>
         events[k - 1].name \in {"rewrite", "reviser"}
    /\ (events[k].name = "judge" /\ events[k].output_hash = <<Seg("prose")>>) =>
         /\ Len(session.judge_reports) > events[k].iteration
         /\ ReportOf(events[k].iteration) = DefaultReport
         /\ k < Len(events) => events[k + 1].name \in {"reviser", "hitl_reviser"}

C14_Witness ==
  /\ Len(events) >= 5
  /\ events[3].output_hash = "story"
  /\ events[4].output_hash = <<Seg("prose")>>
  /\ events[5].name = "reviser"
  /\ events[5].prompt_hash.story = "story"

\* ------------------------------------------------------------------------
\* observability.py: Metrics on its own: observe_ms on any key with any sample,
\* then snapshot.

\* Most samples observed in one Metrics object.
MaxSamples == 4

TimerKeys == {"a", "b"}
SampleValues == {10, 20, 30, 40}

\* The samples held, over all timers.
TotalSamples(m) ==
  Cardinality(UNION {{<<k, n>> : n \in 1..Len(m.timers_ms[k])} :
                       k \in DOMAIN m.timers_ms})

\* metrics = Metrics()
MetricsInit ==
  /\ pc = "metrics"
  /\ exc = "none"
  /\ max_iters = 0
  /\ enable_hitl = FALSE
  /\ session = new
  /\ i = 0
  /\ story = ""
  /\ final_story = ""
  /\ j_report = DefaultReport
  /\ store = [exists |-> FALSE, data |-> NoMemory]
  /\ memory = NoMemory
  /\ store_saves = 0
  /\ events = <<>>
  /\ metrics = NewMetrics
  /\ artifacts = <<>>
  /\ SpanIdle
  /\ j_raw = <<>>

\* metrics.observe_ms(name, ms)
MetricsObserve ==
  /\ pc = "metrics"
  /\ TotalSamples(metrics) < MaxSamples
  /\ \E name \in TimerKeys, ms \in SampleValues :
       metrics' = observe_ms(metrics, name, ms)
  /\ UNCHANGED <<pc, exc, max_iters, enable_hitl, session, i, story, final_story,
                 j_report, memory, store, store_saves, events, artifacts>>
  /\ UNCHANGED <<span, clock, call, j_raw>>

\* session.metrics = metrics.snapshot()
MetricsSnapshot ==
  /\ pc = "metrics"
  /\ session' = [session EXCEPT !.metrics = <<snapshot(metrics)>>]
  /\ pc' = "snapshot"
  /\ UNCHANGED <<exc, max_iters, enable_hitl, i, story, final_story, j_report,
                 memory, store, store_saves, events, metrics, artifacts>>
  /\ UNCHANGED <<span, clock, call, j_raw>>

MetricsNext == MetricsObserve \/ MetricsSnapshot

MetricsSpec == MetricsInit /\ [][MetricsNext]_vars

\* C15 (amended): the snapshot of a timer whose samples are [10, 20, 30, 40]
\* reports p95_ms = 30, the sample at index int(0.95 * 3) = 2.
C15_P95Is30 ==
  \A k \in DOMAIN metrics.timers_ms :
    (pc = "snapshot" /\ metrics.timers_ms[k] = <<10, 20, 30, 40>>) =>
      session.metrics[1].timers[k].p95_ms = 30

\* C15 (as claimed): that snapshot reports p95_ms = 40.
C15_P95Is40 ==
  \A k \in DOMAIN metrics.timers_ms :
    (pc = "snapshot" /\ metrics.timers_ms[k] = <<10, 20, 30, 40>>) =>
      session.metrics[1].timers[k].p95_ms = 40

C15_Witness ==
  /\ pc = "snapshot"
  /\ "a" \in DOMAIN metrics.timers_ms
  /\ metrics.timers_ms["a"] = <<10, 20, 30, 40>>

\* The timers of m whose summary differs in m2.
SummaryChanged(m, m2) ==
  {k \in DOMAIN m.timers_ms :
     k \notin DOMAIN m2.timers_ms
       \/ snapshot(m2).timers[k] # snapshot(m).timers[k]}

\* C16: the snapshot has one summary per timer key; for a key with n >= 1
\* samples it reports count = n and as p95_ms an observed sample p of rank
\* floor(0.95 * (n - 1)): at most that many samples are below p and more than
\* that many are at most p.  A step of observe_ms changes the summary of at
\* most one existing key.
C16_SnapshotRanks ==
  /\ [](pc = "snapshot" =>
          /\ DOMAIN session.metrics[1].timers = DOMAIN metrics.timers_ms
          /\ \A k \in DOMAIN metrics.timers_ms :
               LET vals == metrics.timers_ms[k]
                   n == Len(vals)
                   p == session.metrics[1].timers[k].p95_ms
                   rank == (95 * (n - 1)) \div 100
               IN /\ n >= 1
                  /\ session.metrics[1].timers[k].count = n
                  /\ \E j \in 1..n : vals[j] = p
                  /\ Cardinality({j \in 1..n : vals[j] < p}) <= rank
                  /\ Cardinality({j \in 1..n : vals[j] <= p}) > rank)
  /\ [][Cardinality(SummaryChanged(metrics, metrics')) <= 1]_vars

C16_Witness ==
  /\ pc = "snapshot"
  /\ DOMAIN metrics.timers_ms = {"a", "b"}
  /\ metrics.timers_ms["a"] = <<40, 10, 20>>
  /\ session.metrics[1].timers["a"].p95_ms = 20
  /\ session.metrics[1].timers["b"].count = 1

\* The number of times the gate has finalized the session (each gate
\* assignment of final_story comes with the transition to FINALIZED).
GateSets ==
  Cardinality({k \in 1..Len(session.transitions) :
                 session.transitions[k].to = "FINALIZED"})

\* C17 (as claimed): the gate sets final_story exactly once in a session that
\* has left the loop (never more than once), the HITL revision runs at most
\* once and only overwrites what the gate has set; a step that changes
\* final_story is either the gate's one finalization or the one HITL revision
\* after it, and a step that changes user_feedback is the HITL feedback step
\* on a session that had none.
C17_FinalStoryWrites ==
  /\ [](/\ GateSets <= 1
        /\ Len(HitlSpans) <= 1
        /\ pc \in AfterLoop => GateSets = 1)
  /\ [][session'.final_story # session.final_story =>
          \/ /\ pc = "gate"
             /\ GateSets = 0
             /\ session'.state = "FINALIZED"
             /\ session'.final_story = story
          \/ /\ pc = "hitl_reviser"
             /\ GateSets = 1
             /\ HitlSpans = <<>>
             /\ Len(HitlSpans') = 1]_vars
  /\ [][session'.user_feedback # session.user_feedback =>
          /\ pc = "hitl"
          /\ session.user_feedback = <<>>]_vars

\* ------------------------------------------------------------------------
\* The preference memory over successive sessions: each session loads the
\* file, applies the user's feedback and saves (controller.py:124, 260-265).

\* Most feedback updates in a row.
MaxUpdates == 2

FeedbackWords ==
  {"thanks", "shorter", "Longer", "medium", "calmer", "cozy", "funny",
   "humorous", "named", "Named", "renamed", "Luna", "X", "42",
   "Bartholomeusmaximilianus"}

\* Non-empty feedback texts of one or two words.
MemoryFeedbacks ==
  {<<w>> : w \in FeedbackWords}
    \cup {<<v, w>> : v \in {"named", "Named", "renamed", "shorter"},
                     w \in FeedbackWords}

\* What the preference file may hold before the first session.
PriorStores ==
  {[exists |-> FALSE, data |-> NoMemory]}
    \cup {[exists |-> TRUE,
           data |-> [preferred_length |-> l, preferred_tone |-> t,
                     recurring_character |-> c]] :
            l \in {"None", "short", "tiny"}, t \in {"None", "calmer"},
            c \in {"None", "Luna"}}

MemoryInit ==
  /\ pc = "memory"
  /\ exc = "none"
  /\ max_iters = 0
  /\ enable_hitl = TRUE
  /\ session = new
  /\ i = 0
  /\ story = ""
  /\ final_story = ""
  /\ j_report = DefaultReport
  /\ store \in PriorStores
  /\ memory = load(store)
  /\ store_saves = 0
  /\ events = <<>>
  /\ metrics = NewMetrics
  /\ artifacts = <<>>
  /\ SpanIdle
  /\ j_raw = <<>>

\* memory = mem_store.load(); memory = _hitl_update_memory(memory, fb);
\* mem_store.save(memory)
MemoryUpdate ==
  /\ pc = "memory"
  /\ store_saves < MaxUpdates
  /\ \E fb \in MemoryFeedbacks :
       /\ session' = [session EXCEPT !.user_feedback = fb]
       /\ memory' = _hitl_update_memory(load(store), fb)
  /\ store' = [exists |-> TRUE, data |-> memory']
  /\ store_saves' = store_saves + 1
  /\ UNCHANGED <<pc, exc, max_iters, enable_hitl, i, story, final_story, j_report,
                 events, metrics, artifacts>>
  /\ UNCHANGED <<span, clock, call, j_raw>>

MemoryNext == MemoryUpdate

MemorySpec == MemoryInit /\ [][MemoryNext]_vars

LengthKeywords == {"short", "long", "medium"}
ToneKeywords == {"calm", "cozy", "funny", "humor"}

\* C18: an update never clears a preference: each field is afterwards its
\* prior value or a value other than None and "" that the feedback matched;
\* a field whose keywords (or "named <letters>" pattern) do not occur in the
\* feedback keeps its prior value; a field that was set stays set.
C18_NeverClears ==
  [][store_saves' # store_saves =>
       LET fb == session'.user_feedback
           lengthHit == \E kw \in LengthKeywords : Has(fb, kw)
           toneHit == \E kw \in ToneKeywords : Has(fb, kw)
           nameHit == \E n \in 1..(Len(fb) - 1) :
                        EndsNamed(fb[n]) /\ Letters(fb[n + 1]) # ""
       IN /\ memory'.preferred_length =
               (IF lengthHit THEN memory'.preferred_length
                ELSE memory.preferred_length)
          /\ memory'.preferred_tone =
               (IF toneHit THEN memory'.preferred_tone ELSE memory.preferred_tone)
          /\ memory'.recurring_character =
               (IF nameHit THEN memory'.recurring_character
                ELSE memory.recurring_character)
          /\ lengthHit => memory'.preferred_length \in LengthKeywords
          /\ toneHit => memory'.preferred_tone \in {"calmer", "funnier"}
          /\ nameHit => memory'.recurring_character \notin {"None", ""}
          /\ \A f \in DOMAIN memory : memory[f] # "None" => memory'[f] # "None"
          /\ store'.data = memory']_vars

C18_Witness ==
  /\ store_saves = 2
  /\ session.user_feedback = <<"Named", "X">>
  /\ memory = [preferred_length |-> "tiny", preferred_tone |-> "funnier",
               recurring_character |-> "Luna"]
  /\ store.data = memory

\* ---------------------------------------------------------------------------
\* Span on its own: one span, closed and recorded any number of times while
\* the clock advances.
\* ---------------------------------------------------------------------------

MaxClock == 2
MaxCalls == 3

SpanNames == {"judge"}
SpanOutputs == {"first", "second"}
SpanPrompts == {"prompt"}
SpanMetas == { <<>>, [tokens |-> "many"] }

\* A digest: a value that is not the text, different for different texts.
_sha256(text) == [sha256 |-> text]

\* {**old, **new}: the keys of both, the new value where both have one.
Merged(old, more) ==
  [k \in DOMAIN old \cup DOMAIN more |-> IF k \in DOMAIN more THEN more[k] ELSE old[k]]

child_span(trace_id, name, now) ==
  [trace_id |-> trace_id, span_id |-> _sha256(<<trace_id, name, now>>),
   parent_span_id |-> <<>>, name |-> name, start_ms |-> now, end_ms |-> <<>>,
   prompt_hash |-> <<>>, output_hash |-> <<>>, meta |-> <<>>]

close(sp, output, meta, now) ==
  [sp EXCEPT !.end_ms = <<now>>,
             !.output_hash = <<_sha256(output)>>,
             !.meta = IF meta # <<>> THEN Merged(sp.meta, meta) ELSE sp.meta]

\* record_span without the test of end_ms: it closes every time.
recorded_recloses(sp, prompt, output, now) ==
  close([sp EXCEPT !.prompt_hash = <<_sha256(prompt)>>], output, <<>>, now)

\* The span as record_span leaves it.
recorded(sp, prompt, output, now) ==
  LET stamped == [sp EXCEPT !.prompt_hash = <<_sha256(prompt)>>]
  IN IF stamped.end_ms = <<>> THEN close(stamped, output, <<>>, now) ELSE stamped

\* The duration record_span reports: an end_ms of 0 counts as no end.
duration_of(sp) ==
  IF sp.end_ms # <<>> /\ sp.end_ms[1] # 0 THEN sp.end_ms[1] - sp.start_ms ELSE 0

SpanInit ==
  /\ pc = "span"
  /\ exc = ""
  /\ max_iters = 0
  /\ enable_hitl = FALSE
  /\ session = new
  /\ i = 0
  /\ story = ""
  /\ final_story = ""
  /\ j_report = DefaultReport
  /\ memory = NoMemory
  /\ store = [exists |-> FALSE, data |-> NoMemory]
  /\ store_saves = 0
  /\ events = <<>>
  /\ metrics = NewMetrics
  /\ artifacts = <<>>
  /\ clock = 0
  /\ \E name \in SpanNames : span = child_span("trace", name, clock)
  /\ call = NoCall
  /\ j_raw = <<>>

SpanTick ==
  /\ pc = "span"
  /\ clock < MaxClock
  /\ clock' = clock + 1
  /\ UNCHANGED <<pc, exc, max_iters, enable_hitl, session, i, story, final_story,
                 j_report, memory, store, store_saves, events, metrics, artifacts,
                 span, call, j_raw>>

SpanClose ==
  /\ pc = "span"
  /\ call.n < MaxCalls
  /\ \E output \in SpanOutputs, meta \in SpanMetas :
       /\ span' = close(span, output, meta, clock)
       /\ call' = [n |-> call.n + 1, op |-> "close", prompt |-> "",
                   output |-> output, meta |-> meta]
  /\ UNCHANGED <<pc, exc, max_iters, enable_hitl, session, i, story, final_story,
                 j_report, memory, store, store_saves, events, metrics, artifacts,
                 clock, j_raw>>

SpanRecord ==
  /\ pc = "span"
  /\ call.n < MaxCalls
  /\ \E prompt \in SpanPrompts, output \in SpanOutputs :
       /\ span' = recorded(span, prompt, output, clock)
       /\ call' = [n |-> call.n + 1, op |-> "record_span", prompt |-> prompt,
                   output |-> output, meta |-> <<>>]
  /\ metrics' = observe_ms(metrics, span'.name, duration_of(span'))
  /\ events' = Append(events, [type |-> "span", span |-> span',
                               duration_ms |-> duration_of(span')])
  /\ UNCHANGED <<pc, exc, max_iters, enable_hitl, session, i, story, final_story,
                 j_report, memory, store, store_saves, artifacts, clock, j_raw>>

SpanNext ==
  \/ SpanTick
  \/ SpanClose
  \/ SpanRecord

SpanSpec == SpanInit /\ [][SpanNext]_vars

\* C19: closing a span, however often, leaves trace_id, span_id, name and
\* start_ms as they were, and after each close end_ms is the time of that
\* close and output_hash the digest of that close's output; record_span on a
\* span that is already closed leaves end_ms, output_hash and meta as they
\* were and sets only prompt_hash.
C19_CloseKeepsIdentity ==
  [][/\ span'.trace_id = span.trace_id
     /\ span'.span_id = span.span_id
     /\ span'.name = span.name
     /\ span'.start_ms = span.start_ms
     /\ (call'.n # call.n /\ call'.op = "close") =>
           /\ span'.end_ms = <<clock>>
           /\ span'.output_hash = <<_sha256(call'.output)>>
           /\ span'.prompt_hash = span.prompt_hash
     /\ (call'.n # call.n /\ call'.op = "record_span" /\ span.end_ms # <<>>) =>
           /\ span'.end_ms = span.end_ms
           /\ span'.output_hash = span.output_hash
           /\ span'.meta = span.meta
           /\ span'.prompt_hash = <<_sha256(call'.prompt)>>
           /\ span' = [span EXCEPT !.prompt_hash = <<_sha256(call'.prompt)>>]]_vars

\* Closed at time 0 with one output, closed again at time 1 with another and
\* a meta, then recorded at time 2 with the first output.
C19_Witness ==
  /\ pc = "span"
  /\ clock = 2
  /\ call = [n |-> 3, op |-> "record_span", prompt |-> "prompt",
             output |-> "first", meta |-> <<>>]
  /\ span.start_ms = 0
  /\ span.end_ms = <<1>>
  /\ span.output_hash = <<_sha256("second")>>
  /\ span.meta = [tokens |-> "many"]
  /\ span.prompt_hash = <<_sha256("prompt")>>
  /\ Len(events) = 1
  /\ events[1].duration_ms = 1

\* ---------------------------------------------------------------------------
\* The judge's report on its own: a raw text, then
\* _to_judge_report(_extract_json(j_raw)).
\* ---------------------------------------------------------------------------

MaxRawLen == 3

\* What a raw text is made of: prose without braces, a stray '{', a stray
\* '}', an object literal, a JSON value that is no object.
RawSegments ==
  {Seg("prose"), Seg("lbrace"), Seg("rbrace"), Obj(PassObj), Obj(FailObj),
   Seg("null")}

RawTexts == UNION {[1..n -> RawSegments] : n \in 1..MaxRawLen}

ExtractInit ==
  /\ pc = "extract"
  /\ exc = ""
  /\ max_iters = 0
  /\ enable_hitl = FALSE
  /\ session = new
  /\ i = 0
  /\ story = ""
  /\ final_story = ""
  /\ j_report = DefaultReport
  /\ memory = NoMemory
  /\ store = [exists |-> FALSE, data |-> NoMemory]
  /\ store_saves = 0
  /\ events = <<>>
  /\ metrics = NewMetrics
  /\ artifacts = <<>>
  /\ SpanIdle
  /\ j_raw \in RawTexts

ExtractReport ==
  /\ pc = "extract"
  /\ IF _to_judge_report_raises(_extract_json(j_raw))
     THEN /\ exc' = "_to_judge_report"
          /\ pc' = "raised"
          /\ UNCHANGED j_report
     ELSE /\ j_report' = _to_judge_report(_extract_json(j_raw))
          /\ pc' = "extracted"
          /\ UNCHANGED exc
  /\ UNCHANGED <<max_iters, enable_hitl, session, i, story, final_story, memory,
                 store, store_saves, events, metrics, artifacts, span, clock, call,
                 j_raw>>

ExtractNext == ExtractReport

ExtractSpec == ExtractInit /\ [][ExtractNext]_vars

\* The first balanced brace-delimited region of the text is an object
\* literal: the leftmost '{' opens one.  (A region opened by a stray '{' is
\* no valid object.)
FirstRegionIsObject(text) ==
  HasOpen(text) # {} /\ text[Min(HasOpen(text))].k = "obj"

\* C20: for a raw text that is not one JSON value, the report is built from
\* the first balanced {...} region when that region is a valid object,
\* whatever follows it, and is all-defaults only when that region fails to
\* parse or there is none.
C20_FirstRegionParsed ==
  (pc \in {"extracted", "raised"} /\ ~json_loads_ok(j_raw)) =>
     /\ pc = "extracted"
     /\ j_report = (IF FirstRegionIsObject(j_raw)
                    THEN _to_judge_report(j_raw[Min(HasOpen(j_raw))])
                    ELSE DefaultReport)

\* C21: a run with max_iters >= 0 that has persisted saved a session in state
\* FINALIZED, and the text it returns is the saved final_story, which is the
\* last element of the saved drafts, with or without a HITL revision.
C21_ReturnedIsSavedFinal ==
  (pc = "done" /\ max_iters >= 0) =>
     /\ Len(artifacts) = 1
     /\ artifacts[1].state = "FINALIZED"
     /\ final_story = artifacts[1].final_story
     /\ artifacts[1].drafts # <<>>
     /\ artifacts[1].final_story = Last(artifacts[1].drafts)

\* A persisted run whose HITL revision returned a text other than the draft
\* the gate finalized.
C21_Witness ==
  /\ pc = "done"
  /\ max_iters >= 0
  /\ HitlSpans # <<>>
  /\ Len(artifacts[1].drafts) >= 2
  /\ artifacts[1].drafts[Len(artifacts[1].drafts) - 1] = "story"
  /\ final_story = ""

\* C22: no run ends with the preference store written and no session
\* artifact saved: a run that called MemoryStore.save and has ended, by
\* returning or by an exception, has saved its session.
C22_StoreSavedWithSession ==
  (pc \in {"done", "raised"} /\ store_saves > 0) => artifacts # <<>>

\* C23: the gate takes the success path (the report says passed and the
\* session goes from JUDGED to FINALIZED on it) only when the object parsed
\* from the judge's text carries pass as the JSON boolean true; an absent,
\* false, null or non-boolean pass never finalizes the draft as passed.
C23_PassOnlyOnTrue ==
  (/\ pc \in AfterLoop
   /\ session.judge_reports # <<>>
   /\ Last(session.judge_reports).pass_) =>
     _extract_json(j_raw).o.pass = "true"

====
